---- MODULE Spec2Model ----
(***************************************************************************)
(* Model of the production-cluster bootstrap of k3d-manager                *)
(* (k3s/src/main.rs, k3s/src/prod_cluster.rs, k3s/src/utils.rs).           *)
(*                                                                         *)
(* The state is the parsed command line, the ProdClusterConfig built from  *)
(* it, the environment the run reads and writes (the helm binary and the   *)
(* local files), the position of create_prod_cluster, and the trace of     *)
(* the external commands issued so far together with their results.        *)
(* The fixed sleeps of the source change no state and are not modelled.    *)
(***************************************************************************)
EXTENDS Integers, Sequences, FiniteSets, TLC

VARIABLES
    cli,             \* the parsed Commands::Prod arguments
    config,          \* the ProdClusterConfig, NoConfig before main builds it
    helmBinary,      \* environment: `helm version` exits with success
    fs,              \* environment: the set of paths that exist
    fs0,             \* history: the paths that existed when the run started
    pc,              \* the statement of main / create_prod_cluster to run next
    helm_available,  \* the local of create_prod_cluster
    log,             \* the commands issued so far, each with its result
    outcome,         \* "running", or the Result of create_prod_cluster
    summary          \* what the access-information printers have printed

vars == <<cli, config, helmBinary, fs, fs0, pc, helm_available, log, outcome, summary>>

-----------------------------------------------------------------------------
(* Bounds and program constants *)

\* the initial file tree differs from an empty values directory, or from the
\* complete tree, in at most MaxDiff of the paths the code tests
MaxDiff == 1

\* the number of tested paths in which the environment may make the file
\* tree differ from the tree the probing stage left
MaxEnvChanges == 1

\* how many times the probing stage is run in a row
MaxProbes == 2

\* the largest value of the u8 fields servers and agents
U8_MAX == 255

DefaultServers == 3
DefaultAgents == 3

HELM_VALUES_DIR == "./helm-values"
K3D_CONFIG_FILE == "/tmp/k3d-prod-config.yaml"

NoConfig == [name |-> "none"]

-----------------------------------------------------------------------------
(* Paths *)

get_values_file(component) == HELM_VALUES_DIR \o "/" \o component \o ".yaml"

get_manifest_file(name) == HELM_VALUES_DIR \o "/manifests/" \o name \o ".yaml"

ChartsRoot == HELM_VALUES_DIR \o "/charts"
ChartDir == HELM_VALUES_DIR \o "/charts/sample-nginx"
ChartTemplatesDir == ChartDir \o "/templates"
ChartYaml == ChartDir \o "/Chart.yaml"
ManifestsDir == HELM_VALUES_DIR \o "/manifests"

\* the components whose values files create_default_values_files writes, in order
ValuesComponents ==
    <<"cert-manager", "ingress-nginx", "kube-prometheus-stack",
      "elasticsearch", "fluentd", "kibana", "argocd">>

\* the files create_sample_nginx_chart writes, in order
ChartFiles ==
    <<ChartYaml, ChartDir \o "/values.yaml",
      ChartTemplatesDir \o "/deployment.yaml",
      ChartTemplatesDir \o "/service.yaml",
      ChartTemplatesDir \o "/ingress.yaml">>

\* the manifests create_default_values_files writes, in order
ManifestNames ==
    <<"cert-issuer", "namespaces", "network-policies", "resource-quotas">>

Range(s) == {s[i] : i \in DOMAIN s}

\* Path::exists answered from the tree the run started with
ExistsAtStart(p) == p \in fs0

\* Path::exists
Exists(p) == p \in fs

-----------------------------------------------------------------------------
(* The file tree *)

\* the paths whose existence the installation steps test
CheckedPaths ==
    {get_values_file(ValuesComponents[i]) : i \in DOMAIN ValuesComponents}
        \cup {get_manifest_file(ManifestNames[i]) : i \in DOMAIN ManifestNames}
        \cup {ChartDir, ChartYaml}

\* the file-system operations of ensure_helm_values_dir on a missing
\* directory, in program order; each creates the paths it lists
EnsureOps ==
    << [kind |-> "dir", paths |-> <<HELM_VALUES_DIR>>],
       [kind |-> "dir", paths |-> <<ChartsRoot, ChartDir, ChartTemplatesDir>>],
       [kind |-> "dir", paths |-> <<ManifestsDir>>] >>
    \o [i \in DOMAIN ValuesComponents |->
           [kind |-> "file", paths |-> <<get_values_file(ValuesComponents[i])>>]]
    \o [i \in DOMAIN ChartFiles |-> [kind |-> "file", paths |-> <<ChartFiles[i]>>]]
    \o [i \in DOMAIN ManifestNames |->
           [kind |-> "file", paths |-> <<get_manifest_file(ManifestNames[i])>>]]

\* everything the first n operations create
CreatedBy(n) == UNION {Range(EnsureOps[i].paths) : i \in 1..n}

FullTree == CreatedBy(Len(EnsureOps))

\* the directories a path lies in
Ancestors(p) ==
    IF p = HELM_VALUES_DIR THEN {}
    ELSE IF p \in {ChartsRoot, ManifestsDir} THEN {HELM_VALUES_DIR}
    ELSE IF p = ChartDir THEN {HELM_VALUES_DIR, ChartsRoot}
    ELSE IF p = ChartTemplatesDir \/ p \in {ChartFiles[1], ChartFiles[2]}
        THEN {HELM_VALUES_DIR, ChartsRoot, ChartDir}
    ELSE IF p \in Range(ChartFiles)
        THEN {HELM_VALUES_DIR, ChartsRoot, ChartDir, ChartTemplatesDir}
    ELSE IF p \in {get_manifest_file(ManifestNames[i]) : i \in DOMAIN ManifestNames}
        THEN {HELM_VALUES_DIR, ManifestsDir}
    ELSE {HELM_VALUES_DIR}

SmallSets == {P \in SUBSET CheckedPaths : Cardinality(P) <= MaxDiff}

\* the trees a run may start from: no values directory, a values directory
\* holding a few of the tested paths, or the complete tree short of a few
InitialTrees ==
    {{}}
      \cup {{HELM_VALUES_DIR} \cup P \cup UNION {Ancestors(p) : p \in P} : P \in SmallSets}
      \cup {{q \in FullTree : q \notin M /\ Ancestors(q) \cap M = {}} : M \in SmallSets}

-----------------------------------------------------------------------------
(* External commands *)

\* one invocation of an external tool: the function issuing it, the tool,
\* the subcommand, what it acts on, and where its payload comes from
Cmd(fn, tool, verb, target, payload) ==
    [fn |-> fn, tool |-> tool, verb |-> verb, target |-> target, payload |-> payload]

\* the invocation together with the Result it produced
Logged(c, ok) ==
    [fn |-> c.fn, tool |-> c.tool, verb |-> c.verb, target |-> c.target,
     payload |-> c.payload, ok |-> ok]

\* ValuesOrElse passing --values without testing the file
ValuesAlways(component, fallback) == "values-file"

\* the --values overlay of a helm install: the values file when it exists,
\* else the fallback of the call site
ValuesOrElse(component, fallback) ==
    IF Exists(get_values_file(component)) THEN "values-file" ELSE fallback

\* kubectl apply -f <manifest file> when the file exists, else
\* utils::apply_manifest of the inline text
ApplyManifest(fn, name) ==
    IF Exists(get_manifest_file(name))
        THEN Cmd(fn, "kubectl", "apply", name, "manifest-file")
        ELSE Cmd(fn, "kubectl", "apply", name, "inline-manifest")

ClusterCreateCmds ==
    << Cmd("create_prod_cluster", "k3d", "cluster create", "cluster", "config-file") >>

GetNodesCmds ==
    << Cmd("create_prod_cluster", "kubectl", "get nodes", "cluster", "none") >>

Repos ==
    <<"jetstack", "ingress-nginx", "prometheus-community", "elastic", "fluent", "argo">>

\* setup_helm_repos_cmds adding the repositories of the core components only
setup_helm_repos_cmds_core_only ==
    << Cmd("setup_helm_repos", "helm", "repo add", "jetstack", "none"),
       Cmd("setup_helm_repos", "helm", "repo add", "ingress-nginx", "none"),
       Cmd("setup_helm_repos", "helm", "repo update", "repos", "none") >>

setup_helm_repos_cmds ==
    [i \in DOMAIN Repos |-> Cmd("setup_helm_repos", "helm", "repo add", Repos[i], "none")]
        \o << Cmd("setup_helm_repos", "helm", "repo update", "repos", "none") >>

\* install_cert_manager_helm_cmds applying the issuer before the wait
install_cert_manager_helm_cmds_issuer_first ==
    << Cmd("install_cert_manager_helm", "kubectl", "create namespace", "cert-manager", "none"),
       Cmd("install_cert_manager_helm", "helm", "install", "cert-manager",
           ValuesOrElse("cert-manager", "no-overlay")),
       ApplyManifest("install_cert_manager_helm", "cert-issuer"),
       Cmd("install_cert_manager_helm", "kubectl", "wait", "cert-manager", "none") >>

install_cert_manager_helm_cmds ==
    << Cmd("install_cert_manager_helm", "kubectl", "create namespace", "cert-manager", "none"),
       Cmd("install_cert_manager_helm", "helm", "install", "cert-manager",
           ValuesOrElse("cert-manager", "no-overlay")),
       Cmd("install_cert_manager_helm", "kubectl", "wait", "cert-manager", "none"),
       ApplyManifest("install_cert_manager_helm", "cert-issuer") >>

install_ingress_controller_helm_cmds ==
    << Cmd("install_ingress_controller_helm", "kubectl", "create namespace", "ingress-nginx", "none"),
       Cmd("install_ingress_controller_helm", "helm", "install", "ingress-nginx",
           ValuesOrElse("ingress-nginx", "set-overrides")),
       Cmd("install_ingress_controller_helm", "kubectl", "wait", "ingress-nginx", "none") >>

install_monitoring_stack_helm_cmds ==
    << Cmd("install_monitoring_stack_helm", "kubectl", "create namespace", "monitoring", "none"),
       Cmd("install_monitoring_stack_helm", "helm", "install", "kube-prometheus-stack",
           ValuesOrElse("kube-prometheus-stack", "no-overlay")) >>

install_logging_stack_helm_cmds ==
    << Cmd("install_logging_stack_helm", "kubectl", "create namespace", "logging", "none"),
       Cmd("install_logging_stack_helm", "helm", "install", "elasticsearch",
           ValuesOrElse("elasticsearch", "set-overrides")),
       Cmd("install_logging_stack_helm", "helm", "install", "fluentd",
           ValuesOrElse("fluentd", "no-overlay")),
       Cmd("install_logging_stack_helm", "helm", "install", "kibana",
           ValuesOrElse("kibana", "no-overlay")) >>

\* install_argocd_helm_cmds issuing the helm install before the namespace
install_argocd_helm_cmds_install_first ==
    << Cmd("install_argocd_helm", "helm", "install", "argocd",
           ValuesOrElse("argocd", "no-overlay")),
       Cmd("install_argocd_helm", "kubectl", "create namespace", "argocd", "none"),
       Cmd("install_argocd_helm", "kubectl", "wait", "argocd", "none") >>

install_argocd_helm_cmds ==
    << Cmd("install_argocd_helm", "kubectl", "create namespace", "argocd", "none"),
       Cmd("install_argocd_helm", "helm", "install", "argocd",
           ValuesOrElse("argocd", "no-overlay")),
       Cmd("install_argocd_helm", "kubectl", "wait", "argocd", "none") >>

setup_namespaces_cmds == << ApplyManifest("setup_namespaces", "namespaces") >>

setup_network_policies_cmds ==
    << ApplyManifest("setup_network_policies", "network-policies") >>

setup_resource_quotas_cmds ==
    << ApplyManifest("setup_resource_quotas", "resource-quotas") >>

\* deploy_basic_nginx: utils::apply_manifest of the inline deployment
deploy_basic_nginx_cmd ==
    Cmd("deploy_sample_app_helm", "kubectl", "apply", "sample-nginx", "inline-manifest")

deploy_sample_app_helm_cmds ==
    IF Exists(ChartDir) /\ Exists(ChartYaml)
        THEN << Cmd("deploy_sample_app_helm", "helm", "install", "sample-nginx", "chart-dir") >>
        ELSE << deploy_basic_nginx_cmd >>

-----------------------------------------------------------------------------
(* Running commands *)

\* RunResults going on with the remaining commands after the failed one
RunResultsKeepGoing(cmds, k) ==
    [i \in 1..Len(cmds) |-> Logged(cmds[i], i # k)]

\* RunResults running the failed command a second time
RunResultsRetry(cmds, k) ==
    [i \in 1..(IF k = 0 THEN Len(cmds) ELSE k + 1) |->
        Logged(cmds[IF k > 0 /\ i > k THEN k ELSE i], ~(k > 0 /\ i >= k))]

\* the results of running cmds in order under `?`: k = 0 when every command
\* succeeds, else command k is the first to fail and nothing after it runs
RunResults(cmds, k) ==
    [i \in 1..(IF k = 0 THEN Len(cmds) ELSE k) |-> Logged(cmds[i], i # k)]

\* Try without the `?`: an Err is dropped and the run goes on
TryIgnoringErr(cmds, next) ==
    \E k \in 0..Len(cmds) :
        /\ log' = log \o RunResults(cmds, k)
        /\ pc' = next
        /\ outcome' = outcome

\* Try deleting the cluster before it returns the Err
TryWithRollback(cmds, next) ==
    \E k \in 0..Len(cmds) :
        IF k = 0
           THEN log' = log \o RunResults(cmds, k) /\ pc' = next /\ outcome' = outcome
           ELSE /\ log' = log \o RunResults(cmds, k)
                           \o << Logged(Cmd("create_prod_cluster", "k3d", "cluster delete",
                                            "cluster", "none"), TRUE) >>
                /\ pc' = "done"
                /\ outcome' = "err"

\* a chain of utils::run / utils::apply_manifest calls, each followed by `?`:
\* the first Err returns from create_prod_cluster, Ok goes on to `next`
Try(cmds, next) ==
    \E k \in 0..Len(cmds) :
        /\ log' = log \o RunResults(cmds, k)
        /\ IF k = 0
              THEN pc' = next /\ outcome' = outcome
              ELSE pc' = "done" /\ outcome' = "err"

\* TryIf without the test of the flag
TryAlways(flag, cmds, next) == Try(cmds, next)

\* a component installed only when its flag is set
TryIf(flag, cmds, next) ==
    IF flag
        THEN Try(cmds, next)
        ELSE pc' = next /\ UNCHANGED <<log, outcome>>

-----------------------------------------------------------------------------
(* main *)

Init ==
    /\ cli \in [servers : {DefaultServers}, agents : {DefaultAgents},
                skip_monitoring : BOOLEAN, skip_logging : BOOLEAN,
                skip_argocd : BOOLEAN]
    /\ config = NoConfig
    /\ helmBinary \in BOOLEAN
    /\ fs \in InitialTrees
    /\ fs0 = fs
    /\ pc = "main"
    /\ helm_available = FALSE
    /\ log = <<>>
    /\ outcome = "running"
    /\ summary = [kind |-> "none", sections |-> {}]

\* BuildConfig taking install_logging from the monitoring flag
BuildConfigCrossed(c) ==
    [name |-> "prod-cluster",
     servers |-> c.servers,
     agents |-> c.agents,
     install_monitoring |-> ~c.skip_monitoring,
     install_logging |-> ~c.skip_monitoring,
     install_argocd |-> ~c.skip_argocd]

\* the ProdClusterConfig literal in main
BuildConfig(c) ==
    [name |-> "prod-cluster",
     servers |-> c.servers,
     agents |-> c.agents,
     install_monitoring |-> ~c.skip_monitoring,
     install_logging |-> ~c.skip_logging,
     install_argocd |-> ~c.skip_argocd]

\* Commands::Prod in main: build the ProdClusterConfig
Main ==
    /\ pc = "main"
    /\ config' = BuildConfig(cli)
    /\ pc' = "check_helm_installed"
    /\ UNCHANGED <<cli, helmBinary, fs, fs0, helm_available, log, outcome, summary>>

-----------------------------------------------------------------------------
(* create_prod_cluster *)

\* AfterProbe entering the values-directory stage whatever the probe said
AfterProbeAlwaysEnsure == "ensure_helm_values_dir"

\* AfterProbe ending the run when the probe fails
AfterProbeStop == IF helmBinary THEN "ensure_helm_values_dir" ELSE "done"

\* if helm_available { ensure_helm_values_dir()?; } is entered only with helm
AfterProbe == IF helmBinary THEN "ensure_helm_values_dir" ELSE "create_k3d_config"

\* let helm_available = check_helm_installed()
CheckHelmInstalled ==
    /\ pc = "check_helm_installed"
    /\ helm_available' = helmBinary
    /\ log' = Append(log, Logged(Cmd("check_helm_installed", "helm", "version", "helm", "none"),
                                 helmBinary))
    /\ pc' = AfterProbe
    /\ UNCHANGED <<cli, config, helmBinary, fs, fs0, outcome, summary>>

\* what a failed file-system operation may leave behind: some of the
\* directories of a create_dir_all, or the file fs::write had opened
LeftBy(op) ==
    {{op.paths[i] : i \in 1..n} :
        n \in 0..(IF op.kind = "dir" THEN Len(op.paths) - 1 ELSE 1)}

\* if helm_available { ensure_helm_values_dir()?; }
EnsureHelmValuesDir ==
    /\ pc = "ensure_helm_values_dir"
    /\ IF Exists(HELM_VALUES_DIR)
          THEN /\ pc' = "create_k3d_config"
               /\ UNCHANGED <<fs, outcome>>
          ELSE \E k \in 0..Len(EnsureOps) :
                  IF k = 0
                     THEN /\ fs' = fs \cup FullTree
                          /\ pc' = "create_k3d_config"
                          /\ outcome' = outcome
                     ELSE \E left \in LeftBy(EnsureOps[k]) :
                          /\ fs' = fs \cup CreatedBy(k - 1) \cup left
                          /\ pc' = "done"
                          /\ outcome' = "err"
    /\ UNCHANGED <<cli, config, helmBinary, fs0, helm_available, log, summary>>

\* create_k3d_config(&config)?
CreateK3dConfig ==
    /\ pc = "create_k3d_config"
    /\ \E ok \in BOOLEAN :
          IF ok
             THEN /\ fs' = fs \cup {K3D_CONFIG_FILE}
                  /\ pc' = "cluster_create"
                  /\ outcome' = outcome
             ELSE /\ fs' \in {fs, fs \cup {K3D_CONFIG_FILE}}
                  /\ pc' = "done"
                  /\ outcome' = "err"
    /\ UNCHANGED <<cli, config, helmBinary, fs0, helm_available, log, summary>>

Frame == UNCHANGED <<cli, config, helmBinary, fs, fs0, helm_available, summary>>

\* utils::run("k3d", ["cluster", "create", ...])?
CreateCluster ==
    /\ pc = "cluster_create"
    /\ Try(ClusterCreateCmds, "get_nodes")
    /\ Frame

\* AfterNodes without the early return of the path without helm
AfterNodesHelmPath == "setup_helm_repos"

\* if !helm_available { setup_namespaces()?; ... } after the health check
AfterNodes == IF helm_available THEN "setup_helm_repos" ELSE "setup_namespaces"

\* utils::run("kubectl", ["get", "nodes", "-o", "wide"])?
VerifyNodes ==
    /\ pc = "get_nodes"
    /\ Try(GetNodesCmds, AfterNodes)
    /\ Frame

SetupHelmRepos ==
    /\ pc = "setup_helm_repos"
    /\ Try(setup_helm_repos_cmds, "install_cert_manager_helm")
    /\ Frame

InstallCertManagerHelm ==
    /\ pc = "install_cert_manager_helm"
    /\ Try(install_cert_manager_helm_cmds, "install_ingress_controller_helm")
    /\ Frame

InstallIngressControllerHelm ==
    /\ pc = "install_ingress_controller_helm"
    /\ Try(install_ingress_controller_helm_cmds, "install_monitoring_stack_helm")
    /\ Frame

InstallMonitoringStackHelm ==
    /\ pc = "install_monitoring_stack_helm"
    /\ TryIf(config.install_monitoring, install_monitoring_stack_helm_cmds,
             "install_logging_stack_helm")
    /\ Frame

InstallLoggingStackHelm ==
    /\ pc = "install_logging_stack_helm"
    /\ TryIf(config.install_logging, install_logging_stack_helm_cmds, "install_argocd_helm")
    /\ Frame

InstallArgocdHelm ==
    /\ pc = "install_argocd_helm"
    /\ TryIf(config.install_argocd, install_argocd_helm_cmds, "setup_namespaces")
    /\ Frame

\* AfterNamespaces falling through to the policies on the path without helm
AfterNamespacesFullPath == "setup_network_policies"

\* AfterNamespaces going back to the cluster creation on the path without helm
AfterNamespacesLoopBack ==
    IF helm_available THEN "setup_network_policies" ELSE "cluster_create"

\* what follows setup_namespaces()? on the two paths
AfterNamespaces ==
    IF helm_available THEN "setup_network_policies" ELSE "print_basic_access_info"

SetupNamespaces ==
    /\ pc = "setup_namespaces"
    /\ Try(setup_namespaces_cmds, AfterNamespaces)
    /\ Frame

SetupNetworkPolicies ==
    /\ pc = "setup_network_policies"
    /\ Try(setup_network_policies_cmds, "setup_resource_quotas")
    /\ Frame

SetupResourceQuotas ==
    /\ pc = "setup_resource_quotas"
    /\ Try(setup_resource_quotas_cmds, "deploy_sample_app_helm")
    /\ Frame

DeploySampleAppHelm ==
    /\ pc = "deploy_sample_app_helm"
    /\ Try(deploy_sample_app_helm_cmds, "print_access_info")
    /\ Frame

\* the sections print_basic_access_info prints
BasicSections == {"Basic cluster", "Useful Commands", "Install Helm"}

\* the sections print_access_info prints
FullSections ==
    {"Monitoring", "Logging", "GitOps", "Sample App", "Installed Helm Releases",
     "Useful Commands", "Configuration Files"}

\* print_basic_access_info(&config.name); return Ok(())
PrintBasicAccessInfo ==
    /\ pc = "print_basic_access_info"
    /\ summary' = [kind |-> "basic", sections |-> BasicSections]
    /\ outcome' = "ok"
    /\ pc' = "done"
    /\ UNCHANGED <<cli, config, helmBinary, fs, fs0, helm_available, log>>

\* print_access_info(&config.name); Ok(())
PrintAccessInfo ==
    /\ pc = "print_access_info"
    /\ summary' = [kind |-> "full", sections |-> FullSections]
    /\ outcome' = "ok"
    /\ pc' = "done"
    /\ UNCHANGED <<cli, config, helmBinary, fs, fs0, helm_available, log>>

Next ==
    \/ Main
    \/ CheckHelmInstalled
    \/ EnsureHelmValuesDir
    \/ CreateK3dConfig
    \/ CreateCluster
    \/ VerifyNodes
    \/ SetupHelmRepos
    \/ InstallCertManagerHelm
    \/ InstallIngressControllerHelm
    \/ InstallMonitoringStackHelm
    \/ InstallLoggingStackHelm
    \/ InstallArgocdHelm
    \/ SetupNamespaces
    \/ SetupNetworkPolicies
    \/ SetupResourceQuotas
    \/ DeploySampleAppHelm
    \/ PrintBasicAccessInfo
    \/ PrintAccessInfo

Spec == Init /\ [][Next]_vars

TypeOK ==
    /\ pc \in {"parse", "main", "check_helm_installed", "ensure_helm_values_dir", "create_k3d_config",
               "cluster_create", "get_nodes", "setup_helm_repos",
               "install_cert_manager_helm", "install_ingress_controller_helm",
               "install_monitoring_stack_helm", "install_logging_stack_helm",
               "install_argocd_helm", "setup_namespaces", "setup_network_policies",
               "setup_resource_quotas", "deploy_sample_app_helm",
               "print_basic_access_info", "print_access_info", "done"}
    /\ outcome \in {"running", "ok", "err"}
    /\ summary.kind \in {"none", "basic", "full"}
    /\ (pc = "done") = (outcome # "running")

-----------------------------------------------------------------------------
(* Vocabulary of the properties *)

\* the installation steps in pipeline order, each named by the function
\* that issues its commands
StepFns ==
    <<"create_prod_cluster", "install_cert_manager_helm",
      "install_ingress_controller_helm", "install_monitoring_stack_helm",
      "install_logging_stack_helm", "install_argocd_helm", "setup_namespaces",
      "setup_network_policies", "setup_resource_quotas", "deploy_sample_app_helm">>

NumSteps == Len(StepFns)

\* the rank of the step a command belongs to, 0 for the helm probe and the
\* repository registration, which belong to no step
StepRank(fn) ==
    IF \E r \in 1..NumSteps : StepFns[r] = fn
        THEN CHOOSE r \in 1..NumSteps : StepFns[r] = fn
        ELSE 0

\* the number of commands a step issues when all of them succeed
StepLen(r) ==
    CASE r = 1 -> Len(ClusterCreateCmds) + Len(GetNodesCmds)
      [] r = 2 -> Len(install_cert_manager_helm_cmds)
      [] r = 3 -> Len(install_ingress_controller_helm_cmds)
      [] r = 4 -> Len(install_monitoring_stack_helm_cmds)
      [] r = 5 -> Len(install_logging_stack_helm_cmds)
      [] r = 6 -> Len(install_argocd_helm_cmds)
      [] r = 7 -> Len(setup_namespaces_cmds)
      [] r = 8 -> Len(setup_network_policies_cmds)
      [] r = 9 -> Len(setup_resource_quotas_cmds)
      [] r = 10 -> Len(deploy_sample_app_helm_cmds)

\* the positions of the log holding the commands of step r
EntriesOf(r) == {i \in DOMAIN log : StepRank(log[i].fn) = r}

\* step r issued no command
Skipped(r) == EntriesOf(r) = {}

\* step r issued all its commands before position j and each returned success
SucceededBefore(r, j) ==
    /\ Cardinality(EntriesOf(r)) = StepLen(r)
    /\ \A i \in EntriesOf(r) : i < j /\ log[i].ok

Succeeded(r) == SucceededBefore(r, Len(log) + 1)

IsProbe(e) == e.fn = "check_helm_installed"

FailedAt(i) == i \in DOMAIN log /\ ~IsProbe(log[i]) /\ ~log[i].ok

Completed == outcome = "ok"

-----------------------------------------------------------------------------
(* C1 *)

\* C1: steps run in the fixed order cluster-create, cert-manager, ingress,
\* monitoring, logging, ArgoCD, namespaces, network policies, resource
\* quotas, sample app: when a command of a step is issued, every earlier
\* step has either issued all its commands (action and readiness wait) with
\* success, or issued none at all (skipped).
C1_StepOrder ==
    \A j \in DOMAIN log :
        \A r \in 1..NumSteps :
            r < StepRank(log[j].fn) => Skipped(r) \/ SucceededBefore(r, j)

\* a completed run in which all ten steps ran
C1_Witness ==
    /\ Completed
    /\ \A r \in 1..NumSteps : Succeeded(r)

-----------------------------------------------------------------------------
(* C2 *)

\* in trace l, no command of a later step follows a failed command of a step
NoLaterStepAfterFailure(l) ==
    \A i \in DOMAIN l :
        ~l[i].ok /\ StepRank(l[i].fn) > 0
            => \A j \in DOMAIN l : j > i => StepRank(l[j].fn) <= StepRank(l[i].fn)

\* C2: once a command of a step has failed, no command of any later step is
\* ever issued, and the recorded results of the commands issued before stay
\* as they were: the trace only grows at its end.
C2_Abort ==
    [][ /\ Len(log') >= Len(log)
        /\ \A i \in DOMAIN log : log'[i] = log[i]
        /\ NoLaterStepAfterFailure(log') ]_vars

\* a step failed after earlier steps had completed, and the run has ended
C2_Witness ==
    /\ outcome = "err"
    /\ \E i \in DOMAIN log : FailedAt(i) /\ StepRank(log[i].fn) = 4
    /\ Succeeded(2) /\ Succeeded(3)

-----------------------------------------------------------------------------
(* C3 *)

\* the commands issued for an optional component: those of its step and
\* the registration of its chart repositories
OfStep(e, fn) == e.fn = fn

OfRepos(e, repos) == e.verb = "repo add" /\ e.target \in repos

NoCallWhenOff(flag, fn, repos, withRepos) ==
    ~flag => \A i \in DOMAIN log :
                 /\ ~OfStep(log[i], fn)
                 /\ withRepos => ~OfRepos(log[i], repos)

FlagsRespected(withRepos) ==
    config # NoConfig =>
        /\ NoCallWhenOff(config.install_monitoring, "install_monitoring_stack_helm",
                         {"prometheus-community"}, withRepos)
        /\ NoCallWhenOff(config.install_logging, "install_logging_stack_helm",
                         {"elastic", "fluent"}, withRepos)
        /\ NoCallWhenOff(config.install_argocd, "install_argocd_helm",
                         {"argo"}, withRepos)

\* C3 as stated: with a feature flag false no command at all is issued for
\* that component, not even the registration of its chart repository.
C3_Original == FlagsRespected(TRUE)

\* C3 amended: with a feature flag false the step of that component issues
\* no command (no namespace creation, no helm install, no wait); the chart
\* repositories are registered whatever the flags are.
C3_Amended ==
    /\ FlagsRespected(FALSE)
    /\ \A i \in DOMAIN log :
          log[i].fn = "install_cert_manager_helm" =>
              \A n \in DOMAIN Repos :
                  \E j \in 1..(i - 1) : OfRepos(log[j], {Repos[n]}) /\ log[j].ok

\* a full run with all three optional components switched off
C3_Witness ==
    /\ Completed /\ summary.kind = "full"
    /\ ~config.install_monitoring /\ ~config.install_logging /\ ~config.install_argocd
    /\ Succeeded(3) /\ Succeeded(7)

-----------------------------------------------------------------------------
(* C4 *)

ProbedUnavailable == pc \notin {"main", "check_helm_installed"} /\ ~helm_available

\* C4: when the helm probe failed, no helm command other than the probe is
\* issued, the helm-backed steps (cert-manager, ingress, monitoring, logging,
\* ArgoCD, sample chart) issue nothing whatever the flags are, the full
\* summary is never printed, and a completed run printed the basic summary.
C4_NoHelm ==
    ProbedUnavailable =>
        /\ \A i \in DOMAIN log : log[i].tool = "helm" => IsProbe(log[i])
        /\ \A r \in {2, 3, 4, 5, 6, 10} : Skipped(r)
        /\ summary.kind # "full"
        /\ Completed => summary.kind = "basic"

\* a completed run without helm although every optional component was asked for
C4_Witness ==
    /\ ProbedUnavailable /\ Completed /\ summary.kind = "basic"
    /\ config.install_monitoring /\ config.install_logging /\ config.install_argocd

-----------------------------------------------------------------------------
(* C5 *)

ClusterCreated(j) ==
    \E i \in 1..(j - 1) : log[i].verb = "cluster create" /\ log[i].ok

\* C5: without helm the run executes only the cluster-creation and namespace
\* steps: the namespaces are applied after the cluster was created, a
\* completed run has applied them, and the network-policy, resource-quota
\* and sample-workload steps issue nothing.
C5_ReducedPath ==
    ProbedUnavailable =>
        /\ \A r \in 1..NumSteps : r \notin {1, 7} => Skipped(r)
        /\ \A j \in EntriesOf(7) : ClusterCreated(j)
        /\ Completed => Succeeded(1) /\ Succeeded(7)

\* the reduced path ran to its end
C5_Witness ==
    /\ ProbedUnavailable /\ Completed
    /\ Succeeded(1) /\ Succeeded(7) /\ Skipped(8) /\ Skipped(9) /\ Skipped(10)

-----------------------------------------------------------------------------
(* C6 *)

WaitTimedOut(i) == log[i].verb = "wait" /\ ~log[i].ok

\* C6: a readiness wait (cert-manager, ingress, ArgoCD) that does not return
\* success ends the run: it is the last command issued, the run returns its
\* error, no summary is printed and every later step issues nothing; after an
\* ingress wait timeout the cluster-creation and cert-manager steps stand
\* completed.
C6_WaitTimeoutIsTerminal ==
    \A i \in DOMAIN log :
        WaitTimedOut(i) =>
            /\ i = Len(log)
            /\ outcome = "err"
            /\ summary.kind = "none"
            /\ \A r \in 1..NumSteps : r > StepRank(log[i].fn) => Skipped(r)
            /\ log[i].target = "ingress-nginx" => Succeeded(1) /\ Succeeded(2)

\* the ingress wait timed out
C6_Witness ==
    \E i \in DOMAIN log :
        /\ WaitTimedOut(i) /\ log[i].target = "ingress-nginx"
        /\ outcome = "err" /\ Succeeded(2)

-----------------------------------------------------------------------------
(* C7 *)

\* C7: a summary, basic or full, is printed only in a run in which no command
\* of a step (nor the repository registration) failed: every step either
\* completed with success or issued nothing.
C7_SummaryOnlyAfterSuccess ==
    summary.kind # "none" =>
        /\ \A i \in DOMAIN log : ~FailedAt(i)
        /\ \A r \in 1..NumSteps : Skipped(r) \/ Succeeded(r)

\* the full summary was printed after the logging stack was installed
C7_Witness == summary.kind = "full" /\ Succeeded(5) /\ Succeeded(10)

-----------------------------------------------------------------------------
(* C8 *)

ClusterCreateFailed ==
    \E i \in DOMAIN log : log[i].verb = "cluster create" /\ ~log[i].ok

\* C8: when k3d cluster create fails, the run returns an error and no
\* installation step runs: no kubectl command and no helm repo / install
\* command is issued.
C8_ClusterCreateFatal ==
    ClusterCreateFailed =>
        /\ outcome = "err"
        /\ summary.kind = "none"
        /\ \A j \in DOMAIN log :
              /\ log[j].tool # "kubectl"
              /\ log[j].tool = "helm" => IsProbe(log[j])
        /\ \A r \in 2..NumSteps : Skipped(r)

\* cluster creation failed in a run that had helm and all components enabled
C8_Witness ==
    /\ ClusterCreateFailed /\ helm_available
    /\ config.install_monitoring /\ config.install_logging /\ config.install_argocd

-----------------------------------------------------------------------------
(* C9 *)

ValuesFiles == {get_values_file(ValuesComponents[i]) : i \in DOMAIN ValuesComponents}

\* the built-in default of each helm install
BuiltIn(component) ==
    IF component \in {"ingress-nginx", "elasticsearch"} THEN "set-overrides" ELSE "no-overlay"

\* command e, issued from a state with file tree t, uses the external
\* payload exactly when that payload exists in t, and the built-in otherwise
PayloadResolved(e, t) ==
    /\ (e.verb = "install" /\ e.target \in Range(ValuesComponents)) =>
          e.payload = IF get_values_file(e.target) \in t
                         THEN "values-file" ELSE BuiltIn(e.target)
    /\ (e.verb = "apply" /\ e.target \in Range(ManifestNames)) =>
          e.payload = IF get_manifest_file(e.target) \in t
                         THEN "manifest-file" ELSE "inline-manifest"
    /\ e.fn = "deploy_sample_app_helm" =>
          IF ChartDir \in t /\ ChartYaml \in t
              THEN e.tool = "helm" /\ e.verb = "install" /\ e.payload = "chart-dir"
              ELSE e.tool = "kubectl" /\ e.verb = "apply" /\ e.payload = "inline-manifest"

\* C9: every command a step issues takes the external payload (values file,
\* manifest file, chart directory) when it exists as the step runs, and the
\* built-in default when it does not; a step returns an error only when a
\* command it issued failed, never for a missing file.
C9_FallbackResolution ==
    [][ /\ \A j \in DOMAIN log' : j > Len(log) => PayloadResolved(log'[j], fs)
        /\ (outcome = "running" /\ outcome' = "err"
              /\ pc \notin {"ensure_helm_values_dir", "create_k3d_config"})
            => Len(log') > Len(log) /\ ~log'[Len(log')].ok ]_vars

\* a completed run that used an external payload for one step and the
\* built-in default for others
C9_Witness ==
    /\ Completed
    /\ \E i \in DOMAIN log : log[i].payload = "inline-manifest" /\ log[i].ok
    /\ \E i \in DOMAIN log : log[i].payload = "values-file" /\ log[i].ok
    /\ \E i \in DOMAIN log : log[i].payload = "chart-dir" /\ log[i].ok

-----------------------------------------------------------------------------
(* C10 *)

NoOverlaysAtStart == ValuesFiles \cap fs0 = {}

CoreComponents == {"cert-manager", "ingress-nginx", "kube-prometheus-stack", "argocd"}

NoOverlayPassed ==
    \A i \in DOMAIN log :
        (log[i].verb = "install" /\ log[i].target \in CoreComponents)
            => log[i].payload = BuiltIn(log[i].target)

LoggingSkippedWhenOff == (config # NoConfig /\ ~config.install_logging) => Skipped(5)

\* C10 as stated: with helm present and no values overlay present at the
\* start, cert-manager, ingress, monitoring and ArgoCD are installed without
\* a --values overlay, and logging is skipped when its flag is false.
C10_Original ==
    (helm_available /\ NoOverlaysAtStart) => NoOverlayPassed /\ LoggingSkippedWhenOff

\* C10 amended: the same when the values directory exists at the start and
\* holds no values overlay; when the directory itself is missing at the
\* start, the run writes the default values files first and every one of
\* these installs passes its --values file.
C10_Amended ==
    /\ (helm_available /\ NoOverlaysAtStart /\ HELM_VALUES_DIR \in fs0)
          => NoOverlayPassed /\ LoggingSkippedWhenOff
    /\ (helm_available /\ HELM_VALUES_DIR \notin fs0)
          => /\ LoggingSkippedWhenOff
             /\ \A i \in DOMAIN log :
                   (log[i].verb = "install" /\ log[i].target \in CoreComponents)
                       => log[i].payload = "values-file"

\* the scenario: monitoring and ArgoCD on, logging off, helm present, an
\* empty values directory, and the run completed
C10_Witness ==
    /\ Completed /\ summary.kind = "full"
    /\ fs0 = {HELM_VALUES_DIR}
    /\ config.install_monitoring /\ ~config.install_logging /\ config.install_argocd
    /\ Succeeded(2) /\ Succeeded(3) /\ Succeeded(4) /\ Succeeded(6) /\ Skipped(5)


-----------------------------------------------------------------------------
(* C11 *)

ProbingStage == pc \in {"check_helm_installed", "ensure_helm_values_dir"}

\* C11 as stated: the probing stage (the helm probe and the values-directory
\* check) leaves the local files as they were: when it is over, the file
\* tree is the tree the run started with.
C11_Original ==
    (~ProbingStage /\ pc # "main") =>
        fs0 \subseteq fs /\ fs \ {K3D_CONFIG_FILE} \subseteq fs0

\* C11 amended: the helm probe changes no file; the values-directory check
\* changes no file when the directory exists, and is not run at all when
\* helm is unavailable; when helm is available and the directory is missing
\* it creates the directory tree and writes the default files, all of them
\* unless one of the writes fails.
C11_Amended ==
    [][ /\ pc = "check_helm_installed" => fs' = fs
        /\ (pc = "ensure_helm_values_dir" /\ HELM_VALUES_DIR \in fs) => fs' = fs
        /\ (pc = "ensure_helm_values_dir" /\ HELM_VALUES_DIR \notin fs) =>
              /\ helm_available
              /\ fs \subseteq fs' /\ fs' \subseteq fs \cup FullTree
              /\ outcome' = "running" => fs' = fs \cup FullTree
        /\ (pc' = "ensure_helm_values_dir" /\ pc # pc') => helm_available' ]_vars

\* the stage is over and has created the missing directory with all its files
C11_Witness ==
    /\ pc = "create_k3d_config" /\ helm_available
    /\ HELM_VALUES_DIR \notin fs0 /\ fs = FullTree


-----------------------------------------------------------------------------
(* C12 *)

\* C12 as stated: no step of the probing stage (helm probe, values-directory
\* check) ends the run with an error.
C12_Original == [][ProbingStage => outcome' # "err"]_vars

\* C12 amended: the helm probe never ends the run: its outcome becomes
\* helm_available, and a failed probe leads on to the k3d configuration and
\* cluster creation. The values-directory check, run only with helm, goes on
\* when the directory exists; when the directory is missing and cannot be
\* created or filled, it ends the run with an error.
C12_Amended ==
    [][ /\ pc = "check_helm_installed" =>
              /\ outcome' = "running"
              /\ helm_available' = helmBinary
              /\ pc' = IF helmBinary THEN "ensure_helm_values_dir" ELSE "create_k3d_config"
        /\ (pc = "ensure_helm_values_dir" /\ HELM_VALUES_DIR \in fs) =>
              outcome' = "running" /\ pc' = "create_k3d_config"
        /\ (pc = "ensure_helm_values_dir" /\ outcome' = "err") =>
              helm_available /\ HELM_VALUES_DIR \notin fs /\ log' = log ]_vars

\* the probe failed and the run went on to create the cluster
C12_Witness ==
    /\ Len(log) >= 2
    /\ IsProbe(log[1]) /\ ~log[1].ok
    /\ log[2].verb = "cluster create"


-----------------------------------------------------------------------------
(* The environment changing while create_prod_cluster runs *)

\* the trees a run starts from when the environment changes under it
EnvTrees == {{}, {HELM_VALUES_DIR}, FullTree}

InitEnv == Init /\ fs \in EnvTrees

\* the file tree as the probing stage left it
ProbedTree ==
    IF helm_available /\ HELM_VALUES_DIR \notin fs0 THEN fs0 \cup FullTree ELSE fs0

\* the tested paths on which tree t and the probed tree disagree
Drift(t) == {p \in CheckedPaths : (p \in t) # (p \in ProbedTree)}

AfterProbing ==
    pc \notin {"main", "check_helm_installed", "ensure_helm_values_dir", "done"}

\* tree t with path p removed (and all below it) or added (and all above it)
Toggled(t, p) ==
    IF p \in t
        THEN {q \in t : q # p /\ p \notin Ancestors(q)}
        ELSE t \cup {p} \cup Ancestors(p)

\* somebody else removes or creates one of the files the steps test; a path
\* changed once is not changed back
EnvChange ==
    /\ AfterProbing
    /\ \E p \in CheckedPaths \ Drift(fs) :
          /\ Cardinality(Drift(Toggled(fs, p))) <= MaxEnvChanges
          /\ fs' = Toggled(fs, p)
    /\ UNCHANGED <<cli, config, helmBinary, fs0, pc, helm_available, log, outcome, summary>>

\* the helm binary is installed or removed after it was probed
EnvHelm ==
    /\ AfterProbing
    /\ helmBinary = helm_available
    /\ helmBinary' = ~helmBinary
    /\ UNCHANGED <<cli, config, fs, fs0, pc, helm_available, log, outcome, summary>>

NextEnv == Next \/ EnvChange \/ EnvHelm

SpecEnv == InitEnv /\ [][NextEnv]_vars

-----------------------------------------------------------------------------
(* C13 *)

\* C13 as stated: every fallback decision uses what held when the probing
\* stage ended: each command carries the payload that the file tree of that
\* moment selects, whatever happened to the files since.
C13_Original == \A j \in DOMAIN log : PayloadResolved(log[j], ProbedTree)

\* C13 amended: helm availability is determined once, by the probe before
\* cluster creation, is never probed again and alone selects the path of the
\* run; the existence of a values file, manifest file or chart directory is
\* tested when the step runs, so each command carries the payload selected
\* by the file tree of that moment.
C13_Amended ==
    [][ /\ pc # "check_helm_installed" =>
              /\ helm_available' = helm_available
              /\ \A j \in DOMAIN log' : j > Len(log) => ~IsProbe(log'[j])
        /\ (pc = "get_nodes" /\ outcome' = "running" /\ pc' # pc) =>
              pc' = IF helm_available THEN "setup_helm_repos" ELSE "setup_namespaces"
        /\ \A j \in DOMAIN log' : j > Len(log) => PayloadResolved(log'[j], fs) ]_vars

\* a completed run in which a file changed after probing and a step used
\* the payload the changed tree selects
C13_Witness ==
    /\ Completed
    /\ \E j \in DOMAIN log : ~PayloadResolved(log[j], ProbedTree)


-----------------------------------------------------------------------------
(* Running the probing stage again *)

ProbeCount == Cardinality({i \in DOMAIN log : IsProbe(log[i])})

\* what a run of the probing stage finds on file tree t: whether the values
\* directory exists, and which of the tested paths do
TreeVerdict(t) == [dir |-> HELM_VALUES_DIR \in t, paths |-> CheckedPaths \cap t]

\* the probing stage (check_helm_installed, ensure_helm_values_dir) having
\* run to its end, it is run once more on the environment it left
ProbeAgain ==
    /\ pc = "create_k3d_config"
    /\ ProbeCount < MaxProbes
    /\ pc' = "check_helm_installed"
    /\ fs0' = fs
    /\ UNCHANGED <<cli, config, helmBinary, fs, helm_available, log, outcome, summary>>

NextReprobe == Next \/ ProbeAgain

SpecReprobe == Init /\ [][NextReprobe]_vars

-----------------------------------------------------------------------------
(* C14 *)

Reprobing == pc = "create_k3d_config" /\ pc' = "check_helm_installed"

ProbesAgree(l) ==
    \A i, j \in DOMAIN l : IsProbe(l[i]) /\ IsProbe(l[j]) => l[i].ok = l[j].ok

-----------------------------------------------------------------------------
(* The node counts given on the command line *)

\* the values given for --servers and --agents
RawCounts == {0, DefaultServers, U8_MAX + 1}

InitCfg ==
    /\ cli \in [servers : RawCounts, agents : RawCounts,
                skip_monitoring : BOOLEAN, skip_logging : BOOLEAN,
                skip_argocd : BOOLEAN]
    /\ config = NoConfig
    /\ helmBinary \in BOOLEAN
    /\ fs \in EnvTrees
    /\ fs0 = fs
    /\ pc = "parse"
    /\ helm_available = FALSE
    /\ log = <<>>
    /\ outcome = "running"
    /\ summary = [kind |-> "none", sections |-> {}]

\* what clap accepts for a u8 argument
ParsesAsU8(n) == n \in 0..U8_MAX

\* Cli::parse(): a value that is no u8 ends the program with a usage error;
\* there is no other check of servers and agents
ParseArgs ==
    /\ pc = "parse"
    /\ IF ParsesAsU8(cli.servers) /\ ParsesAsU8(cli.agents)
          THEN pc' = "main" /\ outcome' = outcome
          ELSE pc' = "done" /\ outcome' = "err"
    /\ UNCHANGED <<cli, config, helmBinary, fs, fs0, helm_available, log, summary>>

NextCfg == Next \/ ParseArgs

SpecCfg == InitCfg /\ [][NextCfg]_vars

-----------------------------------------------------------------------------
(* C15 *)

SmallPositive(n) == n \in 1..U8_MAX

InvalidCounts == ~(SmallPositive(cli.servers) /\ SmallPositive(cli.agents))

\* C15: a plan whose server or agent count is not a small positive integer,
\* a count of 0 included, is rejected before any side effect: no command is
\* issued, no file is written, and the run does not succeed.
C15_InvalidCountsRejected ==
    InvalidCounts =>
        /\ log = <<>>
        /\ fs = fs0
        /\ outcome # "ok"


-----------------------------------------------------------------------------
(* C16 *)

\* the section of the full summary that gives the endpoints of a component
SectionOmittedWhenOff(flag, section) == ~flag => section \notin summary.sections

\* C16: the full summary holds no endpoint of a component whose flag is
\* false: no Monitoring section without monitoring, no Logging section
\* without logging, no GitOps section without ArgoCD.
C16_SummaryReflectsInstalled ==
    summary.kind = "full" =>
        /\ SectionOmittedWhenOff(config.install_monitoring, "Monitoring")
        /\ SectionOmittedWhenOff(config.install_logging, "Logging")
        /\ SectionOmittedWhenOff(config.install_argocd, "GitOps")

-----------------------------------------------------------------------------
(* C17 *)

FailedEntries == {i \in DOMAIN log : FailedAt(i)}

\* the command named by the error of utils::run / utils::apply_manifest
FailedCmd ==
    LET i == CHOOSE i \in FailedEntries : \A j \in FailedEntries : i <= j
    IN  <<log[i].tool, log[i].verb, log[i].target>>

\* what main receives from create_prod_cluster: Result<()>, the Err holding
\* the error of the failed command or of the failed file operation
ReturnedValue ==
    IF outcome = "err"
        THEN IF FailedEntries # {}
                THEN [ok |-> FALSE, error |-> "command failed", cmd |-> FailedCmd]
                ELSE [ok |-> FALSE, error |-> "io"]
        ELSE [ok |-> outcome = "ok"]

\* the result of each step as the trace shows it
StepResults ==
    [r \in 1..NumSteps |->
        IF Skipped(r) THEN "Skipped" ELSE IF Succeeded(r) THEN "Succeeded" ELSE "Failed"]

HasStepResults(v) == "results" \in DOMAIN v

-----------------------------------------------------------------------------
(* C18 *)

NegatesSkipFlags(cfg, c) ==
    /\ cfg.install_monitoring = ~c.skip_monitoring
    /\ cfg.install_logging = ~c.skip_logging
    /\ cfg.install_argocd = ~c.skip_argocd

\* C18: each feature flag of the plan is the negation of its own skip flag,
\* for every combination of the three, and once built the plan is never
\* changed.
C18_FlagsNegateSkips ==
    [][ /\ config' # NoConfig => NegatesSkipFlags(config', cli')
        /\ config # NoConfig => config' = config ]_vars

\* a finished run whose flags differ from each other
C18_Witness ==
    /\ pc = "done"
    /\ cli.skip_logging /\ ~cli.skip_monitoring /\ ~cli.skip_argocd
    /\ config.install_monitoring /\ ~config.install_logging /\ config.install_argocd

-----------------------------------------------------------------------------
(* C19 *)

CmdKey(e) == <<e.tool, e.verb, e.target>>

\* C19: no command is issued twice in a run: each namespace creation, helm
\* install, manifest apply, readiness wait and the cluster creation appears
\* at most once in the trace, whether the waits succeed or time out.
C19_NoRetry ==
    \A i, j \in DOMAIN log : i # j => CmdKey(log[i]) # CmdKey(log[j])

\* the ArgoCD wait timed out after its install had succeeded
C19_Witness ==
    /\ outcome = "err"
    /\ \E i \in DOMAIN log :
          /\ WaitTimedOut(i) /\ log[i].target = "argocd"
          /\ log[i - 1].verb = "install" /\ log[i - 1].ok

-----------------------------------------------------------------------------
(* C20 *)

IsTeardown(e) == e.verb \in {"cluster delete", "uninstall", "delete"}

\* C20: the step that fails, and the run up to it, issue no cluster delete,
\* helm uninstall or resource delete; the commands that succeeded stay in the
\* trace and the files written stay in place.
C20_NoRollback ==
    [][ /\ \A j \in DOMAIN log' : ~IsTeardown(log'[j])
        /\ outcome' = "err" =>
              /\ fs \subseteq fs'
              /\ Len(log') >= Len(log)
              /\ \A i \in DOMAIN log : log'[i] = log[i] ]_vars

\* a run that failed in the ingress step and left the cluster, the
\* cert-manager release and the written files behind
C20_Witness ==
    /\ outcome = "err"
    /\ Succeeded(1) /\ Succeeded(2) /\ StepResults[3] = "Failed"
    /\ fs0 = {} /\ FullTree \subseteq fs /\ K3D_CONFIG_FILE \in fs


-----------------------------------------------------------------------------
(* C21 *)

\* each call of the pipeline returns, so the run takes its next step
SpecLive == Init /\ [][Next]_vars /\ WF_vars(Next)

\* the statements of main and create_prod_cluster in program order
PcOrder ==
    <<"parse", "main", "check_helm_installed", "ensure_helm_values_dir",
      "create_k3d_config", "cluster_create", "get_nodes", "setup_helm_repos",
      "install_cert_manager_helm", "install_ingress_controller_helm",
      "install_monitoring_stack_helm", "install_logging_stack_helm",
      "install_argocd_helm", "setup_namespaces", "setup_network_policies",
      "setup_resource_quotas", "deploy_sample_app_helm",
      "print_basic_access_info", "print_access_info", "done">>

PcRank(p) == CHOOSE r \in DOMAIN PcOrder : PcOrder[r] = p

\* the run has returned: Ok after a summary, or Err without one
Terminal ==
    /\ pc = "done"
    /\ \/ outcome = "ok" /\ summary.kind # "none"
       \/ outcome = "err" /\ summary.kind = "none"

\* C21: when every call returns, every run eventually returns; a run that
\* has returned is either completed with a summary printed or aborted with
\* an error and no summary; every step moves forward in program order, so
\* no step is entered twice and nothing follows the return.
C21_Termination ==
    /\ <>Terminal
    /\ [](pc = "done" => Terminal)
    /\ [][PcRank(pc') > PcRank(pc)]_vars

\* the longest run: every step of the full path ran and the run returned Ok
C21_Witness ==
    /\ Terminal /\ outcome = "ok" /\ summary.kind = "full"
    /\ config.install_monitoring /\ config.install_logging /\ config.install_argocd
    /\ Len(log) = 1 + Len(setup_helm_repos_cmds) + 22


-----------------------------------------------------------------------------
(* C22 *)

\* the namespaces of the cluster the run places resources in
Namespaces ==
    {"cert-manager", "ingress-nginx", "monitoring", "logging", "argocd", "production"}

\* the --namespace of each helm install
ReleaseNamespace(release) ==
    CASE release = "cert-manager" -> "cert-manager"
      [] release = "ingress-nginx" -> "ingress-nginx"
      [] release = "kube-prometheus-stack" -> "monitoring"
      [] release \in {"elasticsearch", "fluentd", "kibana"} -> "logging"
      [] release = "argocd" -> "argocd"
      [] release = "sample-nginx" -> "production"

\* the metadata.namespace of the resources of each manifest
ManifestNamespace(name) ==
    CASE name = "cert-issuer" -> "cert-manager"
      [] name \in {"network-policies", "resource-quotas", "sample-nginx"} -> "production"

\* e is a helm install or a manifest apply placing resources in namespace ns
Targets(e, ns) ==
    \/ e.verb = "install" /\ ReleaseNamespace(e.target) = ns
    \/ e.verb = "apply" /\ e.target # "namespaces" /\ ManifestNamespace(e.target) = ns

\* e is a call creating namespace ns: kubectl create namespace, or the
\* namespaces manifest of setup_namespaces for production
CreatesNamespace(e, ns) ==
    \/ e.verb = "create namespace" /\ e.target = ns
    \/ e.fn = "setup_namespaces" /\ e.verb = "apply" /\ e.target = "namespaces"
          /\ ns = "production"

\* C22: every helm install and every manifest apply placing resources in a
\* namespace is issued after a call creating that namespace has succeeded in
\* the same run; the network-policy, resource-quota and sample-workload
\* commands follow a successful setup_namespaces.
C22_NamespaceBeforeResource ==
    /\ \A j \in DOMAIN log : \A ns \in Namespaces :
          Targets(log[j], ns) =>
              \E i \in 1..(j - 1) : CreatesNamespace(log[i], ns) /\ log[i].ok
    /\ \A r \in {8, 9, 10} : \A j \in EntriesOf(r) : SucceededBefore(7, j)

\* the fallback sample workload was applied after the namespaces manifest,
\* and the ArgoCD release installed after its namespace
C22_Witness ==
    /\ \E j \in DOMAIN log :
          /\ log[j].target = "sample-nginx" /\ log[j].payload = "inline-manifest"
          /\ log[j].ok
    /\ \E j \in DOMAIN log :
          log[j].verb = "install" /\ log[j].target = "argocd" /\ log[j].ok


-----------------------------------------------------------------------------
(* C23 *)

\* a command with this verb and target returned success before position j
DoneBefore(verb, target, j) ==
    \E i \in 1..(j - 1) : log[i].verb = verb /\ log[i].target = target /\ log[i].ok

\* a successful wait for the cert-manager pods before position j, itself
\* after a successful cert-manager install
CertManagerReadyBefore(j) ==
    \E w \in 1..(j - 1) :
        /\ log[w].verb = "wait" /\ log[w].target = "cert-manager" /\ log[w].ok
        /\ DoneBefore("install", "cert-manager", w)

\* C23: the cert-issuer manifest is applied only after the cert-manager
\* install succeeded and the wait for its pods succeeded after that; every
\* command of the ingress step, its helm install included, is issued only
\* after the cert-issuer manifest was applied with success.
C23_IssuerOrdering ==
    \A j \in DOMAIN log :
        /\ log[j].verb = "apply" /\ log[j].target = "cert-issuer" =>
              CertManagerReadyBefore(j)
        /\ OfStep(log[j], "install_ingress_controller_helm") =>
              DoneBefore("apply", "cert-issuer", j)

\* the ingress release was installed after the inline issuer manifest
C23_Witness ==
    \E j \in DOMAIN log :
        /\ log[j].verb = "install" /\ log[j].target = "ingress-nginx" /\ log[j].ok
        /\ \E i \in 1..(j - 1) :
              /\ log[i].target = "cert-issuer" /\ log[i].payload = "inline-manifest"
              /\ log[i].ok

-----------------------------------------------------------------------------
(* C24 *)

\* all six repositories were added and then updated before position j
ReposReadyBefore(j) ==
    \E u \in 1..(j - 1) :
        /\ log[u].verb = "repo update" /\ log[u].ok
        /\ \A n \in DOMAIN Repos : DoneBefore("repo add", Repos[n], u)

\* C24: every helm install is issued after all six repositories were added
\* and helm repo update succeeded; a failed helm repo add, of whichever
\* repository and whatever the flags, is the last command of the run, which
\* returns an error with no command of any component step issued.
C24_ReposBeforeInstalls ==
    \A j \in DOMAIN log :
        /\ log[j].verb = "install" => ReposReadyBefore(j)
        /\ log[j].verb = "repo add" /\ ~log[j].ok =>
              /\ j = Len(log)
              /\ outcome = "err"
              /\ \A r \in 2..NumSteps : Skipped(r)

\* adding the argo repository failed in a run with ArgoCD turned off
C24_Witness ==
    /\ config # NoConfig /\ ~config.install_argocd
    /\ outcome = "err"
    /\ \E j \in DOMAIN log :
          log[j].verb = "repo add" /\ log[j].target = "argo" /\ ~log[j].ok

-----------------------------------------------------------------------------
(* C25 *)

\* C25: a run that printed the full summary and returned Ok has issued every
\* command of cluster creation, cert-manager with its issuer, ingress, each
\* optional component whose flag is set, namespaces, network policies,
\* resource quotas and the sample workload, each with success; a run that
\* printed the basic summary has done so for cluster creation and namespaces.
C25_SuccessImpliesCompleteness ==
    /\ summary.kind = "full" /\ Completed =>
          /\ \A r \in {1, 2, 3, 7, 8, 9, 10} : Succeeded(r)
          /\ DoneBefore("apply", "cert-issuer", Len(log) + 1)
          /\ config.install_monitoring => Succeeded(4)
          /\ config.install_logging => Succeeded(5)
          /\ config.install_argocd => Succeeded(6)
    /\ summary.kind = "basic" /\ Completed => Succeeded(1) /\ Succeeded(7)

\* a full summary after a run with monitoring installed and logging skipped
C25_Witness ==
    /\ summary.kind = "full" /\ Completed
    /\ config.install_monitoring /\ ~config.install_logging
    /\ Succeeded(4) /\ Skipped(5)

====
